---- MODULE Spec2Model ----
(***************************************************************************)
(* Model of max_torch_backend/compiler.py: the single pass of              *)
(* _GraphFactory.create_graph over the nodes of a traced torch.fx graph,   *)
(* the rest of MaxCompiler.__init__ and MaxCompiler.__call__.  The node     *)
(* list walked is the one apply_decompositions returned.  The functions    *)
(* apply_decompositions and TensorsBook.convert_to_max are also applied    *)
(* on their own, to inputs of their own, in the specification SpecPure.    *)
(*                                                                         *)
(* Python values are records tagged by a field k.  Indices (node_idx,      *)
(* input idx, dim_idx, none_indices) are 0-based as in the source; TLA+    *)
(* sequences are 1-based, so element i of a Python list is seq[i + 1].     *)
(***************************************************************************)
EXTENDS Integers, Sequences, FiniteSets, TLC

\* Bounds of the model.
MaxNodes == 3
MaxOutputs == 2
MaxLen == 2

VARIABLES
    pure,                     \* SpecPure: the function applied, its input and
                              \* its results
    mapping,                  \* keys of MAPPING_TORCH_TO_MOJO_FUNCTIONS
    nodes,                    \* the nodes of gm.graph.nodes taken so far (a call
                              \* node without its arguments)
    last_node,                \* the loop variable `node`: the node taken last
    names_to_input_idx,       \* _GraphFactory.names_to_input_idx
    shape_names_to_input_dim, \* _GraphFactory.shape_names_to_input_dim
    graph_inputs,             \* _GraphFactory.graph_inputs
    graph,                    \* _GraphFactory.graph
    tensors,                  \* _GraphFactory.tensor_book.tensors
    none_indices,             \* _GraphFactory.none_indices, once assigned
    pc,                       \* "walk", "returned", "raised", "ready"
    err,                      \* the exception that left MaxCompiler.__init__
    lowered,                  \* node indices whose lowering function was invoked
    scope,                    \* calls of Graph(...).__enter__ and Graph.__exit__
    compiler,                 \* MaxCompiler.none_indices and MaxCompiler.model
    call                      \* the last MaxCompiler.__call__: engine inputs, result

walk_vars ==
    <<mapping, nodes, last_node, names_to_input_idx, shape_names_to_input_dim,
      graph_inputs, graph, tensors, none_indices, pc, err, lowered,
      scope, compiler, call>>

vars == <<pure, walk_vars>>

----------------------------------------------------------------------------
\* Python values

None == [k |-> "None"]
Unset == [k |-> "unset"]
NoError == [k |-> "no error"]
EmptyDict == [n \in {} |-> None]
NoNode == [op |-> "none", name |-> ""]
NotAssigned == [assigned |-> FALSE, indices |-> <<>>]

\* A variant that replaces the dictionary by the one new entry.
PutAlone(d, key, value) == [n \in {key} |-> value]

\* d[key] = value
Put(d, key, value) ==
    [n \in DOMAIN d \cup {key} |-> IF n = key THEN value ELSE d[n]]

Range(s) == {s[i] : i \in DOMAIN s}

IsRaise(v) == v.k = "raise"

\* The first raised exception of a sequence of evaluation results, in order.
FirstRaise(s) ==
    s[CHOOSE i \in DOMAIN s : IsRaise(s[i]) /\ \A j \in 1..(i - 1) : ~IsRaise(s[j])]

----------------------------------------------------------------------------
\* The graph's nodes

SymInts == {"s0", "s1"}
IntDims == {"3"}

NodeName(node_idx) == "n" \o ToString(node_idx)

\* node.meta["example_value"] / node.meta["val"] of a placeholder.
ExampleShapes ==
    { <<"3">>, <<"s0">>, <<"s1", "s0", "s0">>, <<"s0", "3.5">> }

ExampleValues ==
    {[k |-> "Tensor", shape |-> s] : s \in ExampleShapes}
        \cup {[k |-> "SymInt", sym |-> "s0"], [k |-> "no meta"]}

\* node.target of a call_function / call_method node.
NoAttribute == "<no attribute>"

Targets ==
    { [id |-> "aten.add.Tensor", str |-> FALSE,
       namespace |-> "aten", overloadpacket |-> "aten.add"],
      [id |-> "aten.add.Scalar", str |-> FALSE,
       namespace |-> "aten", overloadpacket |-> "aten.add"],
      [id |-> "view", str |-> TRUE,
       namespace |-> NoAttribute, overloadpacket |-> NoAttribute] }

Ref(name) == [k |-> "Node", name |-> name]

NodeNames(ns) == {ns[i].name : i \in DOMAIN ns}

\* The names of the two nodes that precede the next one.
RecentNames(ns) == {ns[i].name : i \in {j \in DOMAIN ns : j > Len(ns) - 2}}

\* Arguments a call node may carry: references to earlier nodes and literals
\* (a dict is a value convert_to_max has no case for).
ArgAtoms(names) ==
    {Ref(n) : n \in names} \cup {[k |-> "int", v |-> 1], [k |-> "dict"]}

----------------------------------------------------------------------------
\* TensorsBook

\* A variant that converts the argument itself and leaves what it holds as
\* it is.
ConvertShallow(book, something) ==
    CASE something.k = "Node" ->
            IF something.name \in DOMAIN book
            THEN book[something.name]
            ELSE [k |-> "raise", exc |-> "KeyError", kind |-> "UnboundReference",
                  what |-> something.name]
      [] something.k = "immutable_list" ->
            [k |-> "list", items |-> something.items]
      [] something.k \in {"str", "int", "float", "slice", "tuple", "device",
                          "dtype", "None", "Ellipsis", "Module"} ->
            something
      [] OTHER ->
            [k |-> "raise", exc |-> "ValueError", kind |-> "UnsupportedValueType",
             what |-> something.k]

RECURSIVE convert_to_max(_, _)
convert_to_max(book, something) ==
    CASE something.k = "Node" ->
            IF something.name \in DOMAIN book
            THEN book[something.name]
            ELSE [k |-> "raise", exc |-> "KeyError", kind |-> "UnboundReference",
                  what |-> something.name]
      [] something.k \in {"str", "int", "float"} -> something
      [] something.k = "slice" ->
            LET parts == << convert_to_max(book, something.start),
                            convert_to_max(book, something.stop),
                            convert_to_max(book, something.step) >>
            IN  IF \E i \in 1..3 : IsRaise(parts[i])
                THEN FirstRaise(parts)
                ELSE [k |-> "slice", start |-> parts[1], stop |-> parts[2],
                      step |-> parts[3]]
      [] something.k = "immutable_list" ->
            LET items == [i \in DOMAIN something.items |->
                             convert_to_max(book, something.items[i])]
            IN  IF \E i \in DOMAIN items : IsRaise(items[i])
                THEN FirstRaise(items)
                ELSE [k |-> "list", items |-> items]
      [] something.k = "tuple" ->
            LET items == [i \in DOMAIN something.items |->
                             convert_to_max(book, something.items[i])]
            IN  IF \E i \in DOMAIN items : IsRaise(items[i])
                THEN FirstRaise(items)
                ELSE [k |-> "tuple", items |-> items]
      [] something.k \in {"device", "dtype", "None", "Ellipsis", "Module"} ->
            something
      [] OTHER ->
            [k |-> "raise", exc |-> "ValueError", kind |-> "UnsupportedValueType",
             what |-> something.k]

----------------------------------------------------------------------------
\* _GraphFactory

\* A variant that keeps the pair a name already has (dict.setdefault).
RegisterFirstOnly(registry, dim, name, dim_idx) ==
    IF dim \in DOMAIN registry THEN registry
    ELSE Put(registry, dim, [tensor_name |-> name, dim_idx |-> dim_idx])

\* self.shape_names_to_input_dim[str(dim)] = (node.name, dim_idx)
RegisterDim(registry, dim, name, dim_idx) ==
    Put(registry, dim, [tensor_name |-> name, dim_idx |-> dim_idx])

\* The loop of handle_placeholder over example_value.shape, from dim_idx on.
RECURSIVE ScanShape(_, _, _, _)
ScanShape(dims, dim_idx, name, acc) ==
    IF dim_idx >= Len(dims) THEN acc
    ELSE LET dim == dims[dim_idx + 1]
         IN  IF dim \in SymInts
             THEN ScanShape(dims, dim_idx + 1, name,
                     [acc EXCEPT !.shape = Append(@, dim),
                                 !.registry = RegisterDim(@, dim, name, dim_idx)])
             ELSE IF dim \in IntDims
             THEN ScanShape(dims, dim_idx + 1, name,
                     [acc EXCEPT !.shape = Append(@, dim)])
             ELSE [acc EXCEPT !.raised = TRUE]

\* isinstance(example_value, torch.Tensor | torch.nn.Parameter)
DeclaresInput(example_value) == example_value.k = "Tensor"

\* The value graph.inputs[idx] and the value <graph input>.shape[dim_idx].
GraphInput(idx) == [k |-> "GraphInput", idx |-> idx]
ShapeOf(value, dim_idx) == [k |-> "Dim", of |-> value, dim_idx |-> dim_idx]

\* Graph("max_torch_backend", input_types=self.graph_inputs).__enter__()
NewGraph(input_types) ==
    [k |-> "Graph", inputs |-> input_types, outputs |-> <<>>,
     output_calls |-> 0, exits |-> 0]

\* A variant that binds every input name to the first graph input.
FillFromFirstInput(book, n2i, registry) ==
    LET withInputs ==
            [n \in DOMAIN book \cup DOMAIN n2i |->
                IF n \in DOMAIN n2i THEN GraphInput(0) ELSE book[n]]
    IN  [n \in DOMAIN withInputs \cup DOMAIN registry |->
            IF n \in DOMAIN registry
            THEN ShapeOf(withInputs[registry[n].tensor_name], registry[n].dim_idx)
            ELSE withInputs[n]]

\* The two loops of initialize_graph that fill the tensor book.
FillTensorBook(book, n2i, registry) ==
    LET withInputs ==
            [n \in DOMAIN book \cup DOMAIN n2i |->
                IF n \in DOMAIN n2i THEN GraphInput(n2i[n]) ELSE book[n]]
    IN  [n \in DOMAIN withInputs \cup DOMAIN registry |->
            IF n \in DOMAIN registry
            THEN ShapeOf(withInputs[registry[n].tensor_name], registry[n].dim_idx)
            ELSE withInputs[n]]

\* max.graph.value.TensorType(dtype=..., shape=shape, device=...)
TensorType(shape) == [k |-> "TensorType", shape |-> shape]

\* handle_placeholder: the factory fields after the node, or the exception.
handle_placeholder(node) ==
    LET example_value == node.example_value
        same == [raised |-> FALSE, exc |-> "none",
                 graph_inputs |-> graph_inputs,
                 names_to_input_idx |-> names_to_input_idx,
                 registry |-> shape_names_to_input_dim]
    IN  IF example_value.k = "no meta"
        THEN [same EXCEPT !.raised = TRUE, !.exc = "UnboundLocalError"]
        ELSE IF DeclaresInput(example_value)
        THEN LET scan == ScanShape(example_value.shape, 0, node.name,
                                   [shape |-> <<>>, raised |-> FALSE,
                                    registry |-> shape_names_to_input_dim])
             IN  IF scan.raised
                 THEN [same EXCEPT !.raised = TRUE, !.exc = "TypeError",
                                   !.registry = scan.registry]
                 ELSE [same EXCEPT
                          !.graph_inputs = Append(@, TensorType(scan.shape)),
                          !.names_to_input_idx =
                              Put(@, node.name, (Len(graph_inputs) + 1) - 1),
                          !.registry = scan.registry]
        ELSE same

\* The state after "if not self.graph: self.initialize_graph()".
EnsureGraph ==
    IF graph = None
    THEN [graph |-> NewGraph(graph_inputs),
          tensors |-> FillTensorBook(tensors, names_to_input_idx,
                                     shape_names_to_input_dim),
          scope |-> [scope EXCEPT !.enters = @ + 1]]
    ELSE [graph |-> graph, tensors |-> tensors, scope |-> scope]

\* get_fully_qualified_name(node.target)
get_fully_qualified_name(func) ==
    IF func.str THEN "torch.Tensor." \o func.id
    ELSE func.id \o " of type OpOverload "

\* key = node.target; aten overloads are looked up by their overload packet.
CanonicalKey(target) ==
    IF target.namespace # NoAttribute /\ target.namespace = "aten"
    THEN target.overloadpacket
    ELSE target.id

\* A variant that skips the lookup.
AnyKeyInMapping(key, table) == TRUE

\* key in MAPPING_TORCH_TO_MOJO_FUNCTIONS
KeyInMapping(key, table) == key \in table

\* A variant without the except clause.
CatchesNothing(exc) == FALSE

\* except RuntimeError as e
Caught(exc) == exc = "RuntimeError"

LoweringOutcomes == {"ok", "RuntimeError", "TypeError"}

\* handle_call_function on tensor book `book`; `outcome` is what the looked-up
\* lowering function does when it is invoked.
handle_call_function(book, node_idx, node, outcome) ==
    LET func_args == [i \in DOMAIN node.args |-> convert_to_max(book, node.args[i])]
        func_kwargs == [i \in DOMAIN node.kwargs |->
                           [key |-> node.kwargs[i].key,
                            value |-> convert_to_max(book, node.kwargs[i].value)]]
        kwvalues == [i \in DOMAIN func_kwargs |-> func_kwargs[i].value]
        key == CanonicalKey(node.target)
        quiet == [raised |-> FALSE, invoked |-> FALSE, book |-> book, err |-> NoError]
    IN  IF \E i \in DOMAIN func_args : IsRaise(func_args[i])
        THEN [quiet EXCEPT !.raised = TRUE,
                           !.err = [FirstRaise(func_args) EXCEPT !.k = "error"]]
        ELSE IF \E i \in DOMAIN kwvalues : IsRaise(kwvalues[i])
        THEN [quiet EXCEPT !.raised = TRUE,
                           !.err = [FirstRaise(kwvalues) EXCEPT !.k = "error"]]
        ELSE IF ~KeyInMapping(key, mapping)
        THEN [quiet EXCEPT !.raised = TRUE,
                 !.err = [k |-> "error", exc |-> "ValueError",
                          kind |-> "UnsupportedOperator", node_idx |-> node_idx,
                          function |-> get_fully_qualified_name(node.target)]]
        ELSE IF outcome = "ok"
        THEN [quiet EXCEPT !.invoked = TRUE,
                 !.book = Put(book, node.name, [k |-> "OpResult", node |-> node.name])]
        ELSE IF Caught(outcome)
        THEN [quiet EXCEPT !.raised = TRUE, !.invoked = TRUE,
                 !.err = [k |-> "error", exc |-> "MaxCompilerError",
                          kind |-> "LoweringFailed", node_idx |-> node_idx,
                          function |-> get_fully_qualified_name(node.target),
                          args |-> func_args, kwargs |-> func_kwargs,
                          cause |-> outcome]]
        ELSE [quiet EXCEPT !.raised = TRUE, !.invoked = TRUE,
                 !.err = [k |-> "error", exc |-> outcome, kind |-> "uncaught",
                          node_idx |-> node_idx]]

\* Attributes of a _GraphFactory instance (its fields and methods).
GraphFactoryAttributes ==
    {"names_to_input_idx", "shape_names_to_input_dim", "graph_inputs", "graph",
     "tensor_book", "initialize_graph", "handle_placeholder",
     "handle_call_function", "handle_get_attr", "handle_output", "create_graph"}

\* Attributes of the GraphModule that get_attr nodes may name.
ModuleAttributes == {"weight"}
GetAttrTargets == {"weight", "missing"}

\* The module-level function fetch_attr(gm, target), for one-atom targets.
fetch_attr(target) ==
    IF target \notin ModuleAttributes
    THEN [k |-> "raise", exc |-> "RuntimeError", kind |-> "nonexistent target"]
    ELSE [k |-> "Attribute", target |-> target]

\* handle_get_attr: attr_value = self.fetch_attr(node.target)
handle_get_attr(book, node) ==
    IF "fetch_attr" \notin GraphFactoryAttributes
    THEN [raised |-> TRUE, book |-> book,
          err |-> [k |-> "error", exc |-> "AttributeError",
                   kind |-> "no attribute fetch_attr"]]
    ELSE LET attr_value == fetch_attr(node.target)
         IN  IF IsRaise(attr_value)
             THEN [raised |-> TRUE, book |-> book,
                   err |-> [attr_value EXCEPT !.k = "error"]]
             ELSE [raised |-> FALSE, book |-> Put(book, node.name, attr_value),
                   err |-> NoError]

IsNone(v) == v = None

\* A variant that keeps the None elements too.
KeepAllFrom(s, i) == s

\* The elements of handle_output's loop appended to output_tensors, in order.
RECURSIVE NonNoneFrom(_, _)
NonNoneFrom(s, i) ==
    IF i >= Len(s) THEN <<>>
    ELSE IF IsNone(s[i + 1]) THEN NonNoneFrom(s, i + 1)
    ELSE <<s[i + 1]>> \o NonNoneFrom(s, i + 1)

\* The 0-based indices i of s, in increasing order, with s[i] None.
RECURSIVE NoneIndicesFrom(_, _)
NoneIndicesFrom(s, i) ==
    IF i >= Len(s) THEN <<>>
    ELSE IF IsNone(s[i + 1]) THEN <<i>> \o NoneIndicesFrom(s, i + 1)
    ELSE NoneIndicesFrom(s, i + 1)

\* A variant that submits whatever was collected.
SubmitsAlways(output_tensors) == TRUE

\* if output_tensors:
HasOutputs(output_tensors) == output_tensors # <<>>

\* handle_output on graph g and tensor book `book`; `ext` is what the target
\* graph does when output() or __exit__() reaches an already closed scope.
handle_output(g, book, node, ext) ==
    LET converted == [i \in DOMAIN node.args0 |-> convert_to_max(book, node.args0[i])]
        output_tensors == NonNoneFrom(converted, 0)
        quiet == [raised |-> FALSE, graph |-> g, none_indices |-> none_indices,
                  exits |-> 0, err |-> NoError]
    IN  IF \E i \in DOMAIN converted : IsRaise(converted[i])
        THEN [quiet EXCEPT !.raised = TRUE,
                           !.err = [FirstRaise(converted) EXCEPT !.k = "error"]]
        ELSE LET none_idx == NoneIndicesFrom(converted, 0)
                 stored == [quiet EXCEPT
                               !.none_indices = [assigned |-> TRUE, indices |-> none_idx]]
             IN  IF ~HasOutputs(output_tensors)
                 THEN [stored EXCEPT !.raised = TRUE,
                          !.err = [k |-> "error", exc |-> "ValueError",
                                   kind |-> "EmptyOutput", node |-> node.name]]
                 ELSE IF g.exits > 0 /\ ext = "output raises"
                 THEN [stored EXCEPT !.raised = TRUE,
                          !.err = [k |-> "error", exc |-> "external",
                                   kind |-> "output on closed graph"]]
                 ELSE LET submitted ==
                              [g EXCEPT !.outputs = output_tensors,
                                        !.output_calls = @ + 1]
                      IN  IF g.exits > 0 /\ ext = "exit raises"
                          THEN [stored EXCEPT !.raised = TRUE, !.exits = 1,
                                   !.graph = [submitted EXCEPT !.exits = @ + 1],
                                   !.err = [k |-> "error", exc |-> "external",
                                            kind |-> "exit of closed graph"]]
                          ELSE [stored EXCEPT !.exits = 1,
                                   !.graph = [submitted EXCEPT !.exits = @ + 1]]

----------------------------------------------------------------------------
\* MaxCompiler.__call__

IsTorchTensor(x) == x.k = "torch.Tensor"

\* A variant without the isinstance filter.
KeepAllInputs(inputs, detach) == inputs

\* keep_only_tensors(inputs, detach)
RECURSIVE keep_only_tensors(_, _)
keep_only_tensors(inputs, detach) ==
    IF inputs = <<>> THEN <<>>
    ELSE LET x == Head(inputs)
         IN  IF IsTorchTensor(x)
             THEN <<IF detach THEN [x EXCEPT !.requires_grad = FALSE] ELSE x>>
                      \o keep_only_tensors(Tail(inputs), detach)
             ELSE keep_only_tensors(Tail(inputs), detach)

\* torch.from_dlpack(x) for each engine output x
from_dlpack(outputs) ==
    [i \in DOMAIN outputs |-> [k |-> "torch.Tensor", data |-> outputs[i],
                               requires_grad |-> FALSE]]

\* A variant that puts the None entries after the tensors.
ReinterleaveNonesLast(tensor_outputs, indices, i, tensor_idx) ==
    tensor_outputs \o [j \in 1..Len(indices) |-> None]

\* The loop of __call__ that rebuilds the output list, from position i on.
RECURSIVE Reinterleave(_, _, _, _)
Reinterleave(tensor_outputs, indices, i, tensor_idx) ==
    IF i >= Len(tensor_outputs) + Len(indices) THEN <<>>
    ELSE IF i \in Range(indices)
    THEN <<None>> \o Reinterleave(tensor_outputs, indices, i + 1, tensor_idx)
    ELSE <<tensor_outputs[tensor_idx + 1]>>
             \o Reinterleave(tensor_outputs, indices, i + 1, tensor_idx + 1)

\* The value __call__ returns for the engine outputs.
CallResult(tensor_outputs, indices) ==
    IF indices # <<>>
    THEN Reinterleave(tensor_outputs, indices, 0, 0)
    ELSE tensor_outputs

----------------------------------------------------------------------------
\* apply_decompositions

\* core_aten_decompositions(): the operators that have a decomposition, each
\* with the operators its decomposition dispatches in turn.
decomposition_table ==
    [t \in {"aten.mish.default", "aten.softplus.default"} |->
        IF t = "aten.mish.default"
        THEN <<"aten.softplus.default", "aten.tanh.default", "aten.mul.Tensor">>
        ELSE <<"aten.exp.default", "aten.log1p.default">>]

\* A variant that re-traces every graph.
AlwaysNeedsDecomposition(gm) == TRUE

\* any(node.op == "call_function" and node.target in decomposition_table ...)
needs_decomposition(gm) ==
    \E i \in DOMAIN gm.nodes :
        /\ gm.nodes[i].op = "call_function"
        /\ gm.nodes[i].target \in DOMAIN decomposition_table

Absent == [k |-> "absent"]
NoMeta == [val |-> Absent, example_value |-> Absent]

\* The entry of example_inputs for a placeholder node.
ExampleInput(node) ==
    LET example_value ==
            IF node.meta.val # Absent THEN node.meta.val
            ELSE IF node.meta.example_value # Absent THEN node.meta.example_value
            ELSE [k |-> "Tensor", shape |-> <<>>, data |-> "0.0"]
    IN  IF example_value.k = "Tensor"
        THEN [k |-> "Tensor", shape |-> example_value.shape, data |-> "zeros"]
        ELSE example_value

\* The operators make_fx records when the operators of targets are dispatched
\* through the decomposition table: an operator of the table is replaced by
\* what its decomposition dispatches.
RECURSIVE Decompose(_)
Decompose(targets) ==
    IF targets = <<>> THEN <<>>
    ELSE LET t == Head(targets)
         IN  (IF t \in DOMAIN decomposition_table
              THEN Decompose(decomposition_table[t])
              ELSE <<t>>) \o Decompose(Tail(targets))

\* The ATen operator a call node dispatches to when the graph is run.
AtenOf(node) ==
    IF node.op = "call_method" THEN "aten." \o node.target \o ".default"
    ELSE node.target

\* The nodes make_fx records for fx_nodes, run on the example inputs.
RECURSIVE Trace(_)
Trace(fx_nodes) ==
    IF fx_nodes = <<>> THEN <<>>
    ELSE LET node == Head(fx_nodes)
             traced ==
                 CASE node.op = "placeholder" ->
                         << [op |-> "placeholder", target |-> "",
                             meta |-> [val |-> ExampleInput(node),
                                       example_value |-> Absent]] >>
                   [] node.op \in {"call_function", "call_method"} ->
                         LET ops == Decompose(<<AtenOf(node)>>)
                         IN  [i \in DOMAIN ops |->
                                 [op |-> "call_function", target |-> ops[i],
                                  meta |-> NoMeta]]
                   [] OTHER -> <<node>>
         IN  traced \o Trace(Tail(fx_nodes))

\* make_fx(decompose_with_make_fx, decomposition_table)(*example_inputs)
make_fx(gm) ==
    [k |-> "GraphModule", tracer |-> "make_fx", nodes |-> Trace(gm.nodes)]

apply_decompositions(gm) ==
    IF ~needs_decomposition(gm) THEN gm ELSE make_fx(gm)

----------------------------------------------------------------------------
\* Inputs

\* Sequences over S of length at most n.
SeqUpTo(S, n) == UNION {[1..m -> S] : m \in 0..n}

CallArguments(names) ==
    {[args |-> a, kwargs |-> <<>>] : a \in SeqUpTo(ArgAtoms(names), 1)}
        \cup {[args |-> <<>>, kwargs |-> <<[key |-> "alpha", value |-> v]>>] :
                 v \in ArgAtoms(names)}

\* What the target graph may do when output() or __exit__() is called on it:
\* only a scope that was already closed can refuse.
ClosedScopeOutcomes(g) ==
    IF g # None /\ g.exits > 0
    THEN {"ok", "output raises", "exit raises"}
    ELSE {"ok"}

OutputAtoms(names) == {Ref(n) : n \in names} \cup {None}

\* Argument lists of MaxCompiler.__call__.
TorchX == [k |-> "torch.Tensor", data |-> "x", requires_grad |-> TRUE]
TorchY == [k |-> "torch.Tensor", data |-> "y", requires_grad |-> FALSE]
CallArgLists ==
    { <<>>, <<TorchX>>, <<[k |-> "int", v |-> 1], TorchY, TorchX>>,
      <<TorchX, None, TorchX>> }

\* The tables MAPPING_TORCH_TO_MOJO_FUNCTIONS may be.
MappingTables == SUBSET {"aten.add", "view"}

\* The node lists walked: at most MaxNodes nodes, and at most one node after
\* an output node.
MayTakeNode ==
    /\ Len(nodes) < MaxNodes
    /\ \A i \in DOMAIN nodes : nodes[i].op = "output" => i = Len(nodes)

\* The operation kinds of torch.fx nodes.
NodeOps ==
    {"placeholder", "get_attr", "call_function", "call_module", "call_method",
     "output"}

\* A dispatch that has no branch for get_attr nodes.
DispatchWithoutGetAttr(op) ==
    CASE op = "placeholder" -> "handle_placeholder"
      [] op \in {"call_function", "call_method"} -> "handle_call_function"
      [] op = "output" -> "handle_output"
      [] OTHER -> "raise"

\* The branch create_graph takes for a node of operation kind op.
Dispatch(op) ==
    CASE op = "placeholder" -> "handle_placeholder"
      [] op \in {"call_function", "call_method"} -> "handle_call_function"
      [] op = "get_attr" -> "handle_get_attr"
      [] op = "output" -> "handle_output"
      [] OTHER -> "raise"

\* The nodes of the graph modules handed to apply_decompositions.
GmNodes ==
    {[op |-> "placeholder", target |-> "", meta |-> m] :
        m \in { NoMeta,
                [val |-> [k |-> "Tensor", shape |-> <<"3">>, data |-> "x"],
                 example_value |-> Absent],
                [val |-> Absent,
                 example_value |-> [k |-> "Tensor", shape |-> <<"s0">>, data |-> "y"]],
                [val |-> [k |-> "SymInt", sym |-> "s0"], example_value |-> Absent] }}
        \cup {[op |-> "call_function", target |-> t, meta |-> NoMeta] :
                 t \in {"aten.add.Tensor", "aten.mish.default",
                        "aten.softplus.default"}}
        \cup {[op |-> "call_method", target |-> "view", meta |-> NoMeta],
              [op |-> "output", target |-> "output", meta |-> NoMeta]}

\* Graph modules as the tracer hands them over: the placeholders first, one
\* output node, last.
GraphModules ==
    {[k |-> "GraphModule", tracer |-> "dynamo", nodes |-> ns] :
        ns \in {l \in SeqUpTo(GmNodes, MaxNodes) :
                  /\ l # <<>>
                  /\ \A i \in DOMAIN l : (l[i].op = "output") <=> (i = Len(l))
                  /\ \A i \in DOMAIN l :
                        l[i].op = "placeholder" =>
                            \A j \in 1..i : l[j].op = "placeholder"}}

\* The tensor book and the arguments handed to convert_to_max: leaves,
\* slices, lists and tuples of at most MaxLen leaves, and lists and tuples
\* that hold one of these among references.
PureBook ==
    Put(Put(EmptyDict, "a", GraphInput(0)), "b", [k |-> "OpResult", node |-> "b"])

ArgLeaves ==
    {Ref("a"), Ref("b"), Ref("c"), [k |-> "int", v |-> 1], None,
     [k |-> "Ellipsis"]}

ArgSlices ==
    {[k |-> "slice", start |-> a, stop |-> b, step |-> c] :
        a \in {None, [k |-> "int", v |-> 1], Ref("a")},
        b \in {None, [k |-> "int", v |-> 1], Ref("a")},
        c \in {None, [k |-> "int", v |-> 1], Ref("a")}}

ArgCompounds ==
    ArgSlices \cup
        {[k |-> kind, items |-> items] :
            kind \in {"immutable_list", "tuple"},
            items \in SeqUpTo(ArgLeaves, MaxLen)}

NestedArgs ==
    ArgLeaves \cup ArgCompounds \cup
        {[k |-> kind, items |-> before \o <<x>> \o after] :
            kind \in {"immutable_list", "tuple"},
            x \in ArgCompounds,
            before \in SeqUpTo({Ref("b")}, 1),
            after \in SeqUpTo({Ref("b")}, 1)}

PureInputs ==
    {[k |-> "apply_decompositions", stage |-> 0, gm |-> gm,
      once |-> Unset, twice |-> Unset] : gm \in GraphModules}
        \cup {[k |-> "convert_to_max", stage |-> 0, book |-> PureBook,
                something |-> x, result |-> Unset] : x \in NestedArgs}

----------------------------------------------------------------------------
\* The state machine

Init ==
    /\ pure = Unset
    /\ mapping \in MappingTables
    /\ nodes = <<>>
    /\ last_node = NoNode
    /\ names_to_input_idx = EmptyDict
    /\ shape_names_to_input_dim = EmptyDict
    /\ graph_inputs = <<>>
    /\ graph = None
    /\ tensors = EmptyDict
    /\ none_indices = NotAssigned
    /\ pc = "walk"
    /\ err = NoError
    /\ lowered = {}
    /\ scope = [enters |-> 0, exits |-> 0]
    /\ compiler = Unset
    /\ call = Unset

Raise(e) ==
    /\ pc' = "raised"
    /\ err' = e

\* A placeholder node: handle_placeholder(node); continue
WalkPlaceholder ==
    /\ pc = "walk"
    /\ MayTakeNode
    /\ \E example_value \in ExampleValues :
          LET name == IF example_value.k = "SymInt" THEN example_value.sym
                      ELSE NodeName(Len(nodes))
              this == [op |-> "placeholder", name |-> name,
                       example_value |-> example_value]
              after == handle_placeholder(this)
          IN  /\ Dispatch(this.op) = "handle_placeholder"
              /\ name \notin NodeNames(nodes)
              /\ nodes' = Append(nodes, this)
              /\ last_node' = this
              /\ graph_inputs' = after.graph_inputs
              /\ names_to_input_idx' = after.names_to_input_idx
              /\ shape_names_to_input_dim' = after.registry
              /\ IF after.raised
                 THEN Raise([k |-> "error", exc |-> after.exc,
                             kind |-> "placeholder", node |-> name])
                 ELSE UNCHANGED <<pc, err>>
    /\ UNCHANGED <<pure, mapping, graph, tensors, none_indices, lowered, scope,
                   compiler, call>>

\* A call_function or call_method node.
WalkCall ==
    /\ pc = "walk"
    /\ MayTakeNode
    /\ \E target \in Targets, a \in CallArguments(RecentNames(nodes)),
          outcome \in LoweringOutcomes :
          LET node_idx == Len(nodes)
              this == [op |-> IF target.str THEN "call_method" ELSE "call_function",
                       name |-> NodeName(node_idx), target |-> target,
                       args |-> a.args, kwargs |-> a.kwargs]
              entered == EnsureGraph
              after == handle_call_function(entered.tensors, node_idx, this, outcome)
          IN  /\ Dispatch(this.op) = "handle_call_function"
              /\ nodes' = Append(nodes, [op |-> this.op, name |-> this.name,
                                         target |-> target])
              /\ last_node' = this
              /\ graph' = entered.graph
              /\ scope' = entered.scope
              /\ tensors' = after.book
              /\ lowered' = IF after.invoked THEN lowered \cup {node_idx} ELSE lowered
              /\ IF after.raised THEN Raise(after.err) ELSE UNCHANGED <<pc, err>>
    /\ UNCHANGED <<pure, mapping, names_to_input_idx, shape_names_to_input_dim,
                   graph_inputs, none_indices, compiler, call>>

\* A get_attr node.
WalkGetAttr ==
    /\ pc = "walk"
    /\ MayTakeNode
    /\ \E target \in GetAttrTargets :
          LET this == [op |-> "get_attr", name |-> NodeName(Len(nodes)),
                       target |-> target]
              entered == EnsureGraph
              after == handle_get_attr(entered.tensors, this)
          IN  /\ Dispatch(this.op) = "handle_get_attr"
              /\ nodes' = Append(nodes, this)
              /\ last_node' = this
              /\ graph' = entered.graph
              /\ scope' = entered.scope
              /\ tensors' = after.book
              /\ IF after.raised THEN Raise(after.err) ELSE UNCHANGED <<pc, err>>
    /\ UNCHANGED <<pure, mapping, names_to_input_idx, shape_names_to_input_dim,
                   graph_inputs, none_indices, lowered, compiler, call>>

\* An output node.
WalkOutput ==
    /\ pc = "walk"
    /\ MayTakeNode
    /\ \E args0 \in SeqUpTo(OutputAtoms(RecentNames(nodes)), MaxOutputs),
          ext \in ClosedScopeOutcomes(graph) :
          LET this == [op |-> "output", name |-> NodeName(Len(nodes)),
                       args0 |-> args0]
              entered == EnsureGraph
              after == handle_output(entered.graph, entered.tensors, this, ext)
          IN  /\ Dispatch(this.op) = "handle_output"
              /\ nodes' = Append(nodes, this)
              /\ last_node' = this
              /\ graph' = after.graph
              /\ scope' = [entered.scope EXCEPT !.exits = @ + after.exits]
              /\ tensors' = entered.tensors
              /\ none_indices' = after.none_indices
              /\ IF after.raised THEN Raise(after.err) ELSE UNCHANGED <<pc, err>>
    /\ UNCHANGED <<pure, mapping, names_to_input_idx, shape_names_to_input_dim,
                   graph_inputs, lowered, compiler, call>>

\* A node of any kind without a branch: raise ValueError("Unsupported node type")
WalkOther ==
    /\ pc = "walk"
    /\ MayTakeNode
    /\ \E op \in NodeOps :
          LET this == [op |-> op, name |-> NodeName(Len(nodes))]
              entered == EnsureGraph
          IN  /\ Dispatch(this.op) = "raise"
              /\ nodes' = Append(nodes, this)
              /\ last_node' = this
              /\ graph' = entered.graph
              /\ scope' = entered.scope
              /\ tensors' = entered.tensors
              /\ Raise([k |-> "error", exc |-> "ValueError",
                        kind |-> "UnsupportedNodeKind", op |-> this.op])
    /\ UNCHANGED <<pure, mapping, names_to_input_idx, shape_names_to_input_dim,
                   graph_inputs, none_indices, lowered, compiler, call>>

\* The node list (of at least one node) is exhausted: return self.graph
Return ==
    /\ pc = "walk"
    /\ nodes # <<>>
    /\ pc' = "returned"
    /\ last_node' = NoNode
    /\ UNCHANGED <<pure, mapping, nodes, names_to_input_idx, shape_names_to_input_dim,
                   graph_inputs, graph, tensors, none_indices, err, lowered,
                   scope, compiler, call>>

\* MaxCompiler.__init__ after create_graph: none_indices, session.load(graph)
MaxCompilerInit ==
    /\ pc = "returned"
    /\ \E loaded \in BOOLEAN :
          IF loaded
          THEN /\ compiler' =
                    [k |-> "MaxCompiler",
                     none_indices |-> IF none_indices.assigned
                                      THEN none_indices.indices ELSE <<>>,
                     model |-> graph]
               /\ pc' = "ready"
               /\ UNCHANGED err
          ELSE /\ Raise([k |-> "error", exc |-> "external", kind |-> "session.load"])
               /\ UNCHANGED compiler
    /\ UNCHANGED <<pure, mapping, nodes, last_node, names_to_input_idx, shape_names_to_input_dim,
                   graph_inputs, graph, tensors, none_indices, lowered, scope, call>>

\* The engine's results for one execution: one per submitted graph output.
Execute(model, engine_inputs) ==
    [i \in DOMAIN model.outputs |-> [k |-> "dlpack", of |-> model.outputs[i]]]

\* MaxCompiler.__call__(*args)
MaxCompilerCall ==
    /\ pc = "ready"
    /\ \E args \in CallArgLists :
          LET engine_inputs == keep_only_tensors(args, TRUE)
          IN  IF compiler.model # None
              THEN LET tensor_outputs == from_dlpack(Execute(compiler.model, engine_inputs))
                   IN  call' = [k |-> "returned", args |-> args,
                                engine_inputs |-> engine_inputs,
                                tensor_outputs |-> tensor_outputs,
                                result |-> CallResult(tensor_outputs,
                                                      compiler.none_indices)]
              ELSE call' = [k |-> "raised", args |-> args,
                            engine_inputs |-> engine_inputs]
    /\ UNCHANGED <<pure, mapping, nodes, last_node, names_to_input_idx, shape_names_to_input_dim,
                   graph_inputs, graph, tensors, none_indices, pc, err, lowered,
                   scope, compiler>>

Next ==
    \/ WalkPlaceholder
    \/ WalkCall
    \/ WalkGetAttr
    \/ WalkOutput
    \/ WalkOther
    \/ Return
    \/ MaxCompilerInit
    \/ MaxCompilerCall

Spec == Init /\ [][Next]_vars

----------------------------------------------------------------------------
\* The functions applied on their own

InitPure ==
    /\ pure \in PureInputs
    /\ mapping = {}
    /\ nodes = <<>>
    /\ last_node = NoNode
    /\ names_to_input_idx = EmptyDict
    /\ shape_names_to_input_dim = EmptyDict
    /\ graph_inputs = <<>>
    /\ graph = None
    /\ tensors = EmptyDict
    /\ none_indices = NotAssigned
    /\ pc = "walk"
    /\ err = NoError
    /\ lowered = {}
    /\ scope = [enters |-> 0, exits |-> 0]
    /\ compiler = Unset
    /\ call = Unset

\* gm = apply_decompositions(gm)
ApplyDecompositions ==
    /\ pure.k = "apply_decompositions"
    /\ pure.stage = 0
    /\ pure' = [pure EXCEPT !.stage = 1, !.once = apply_decompositions(pure.gm)]
    /\ UNCHANGED walk_vars

\* apply_decompositions applied to the graph module it returned
ApplyDecompositionsAgain ==
    /\ pure.k = "apply_decompositions"
    /\ pure.stage = 1
    /\ pure' = [pure EXCEPT !.stage = 2, !.twice = apply_decompositions(pure.once)]
    /\ UNCHANGED walk_vars

\* tensor_book.convert_to_max(something)
ConvertToMax ==
    /\ pure.k = "convert_to_max"
    /\ pure.stage = 0
    /\ pure' = [pure EXCEPT !.stage = 1,
                            !.result = convert_to_max(pure.book, pure.something)]
    /\ UNCHANGED walk_vars

NextPure ==
    \/ ApplyDecompositions
    \/ ApplyDecompositionsAgain
    \/ ConvertToMax

SpecPure == InitPure /\ [][NextPure]_vars

----------------------------------------------------------------------------
\* Properties

IsCall(n) == n.op \in {"call_function", "call_method"}

\* The arguments of call node n all convert on tensor book `book`.
ArgsConvert(book, n) ==
    /\ \A i \in DOMAIN n.args : ~IsRaise(convert_to_max(book, n.args[i]))
    /\ \A i \in DOMAIN n.kwargs : ~IsRaise(convert_to_max(book, n.kwargs[i].value))

OutputIndices == {i \in DOMAIN nodes : nodes[i].op = "output"}

\* The argument sequence of the output node taken last.
LastOutputArgs ==
    nodes[CHOOSE i \in OutputIndices : \A j \in OutputIndices : j <= i].args0

\* The 0-based positions of args0 whose converted value is None.
NullPositions(args0) ==
    {i \in 0..(Len(args0) - 1) : convert_to_max(tensors, args0[i + 1]) = None}

\* The host tensor __call__ builds from the engine's result for graph output v.
EngineResult(v) ==
    [k |-> "torch.Tensor", data |-> [k |-> "dlpack", of |-> v],
     requires_grad |-> FALSE]

C2_ScopeOncePerCompilation ==
    /\ scope.enters <= 1
    /\ scope.exits <= 1
    /\ scope.exits <= scope.enters
    /\ pc = "returned" => (scope.enters = 1 /\ scope.exits = 1)

\* C3: whenever create_graph returns normally, the value it returns is a graph
\* whose outputs have been submitted and whose construction scope is closed.
C3_ReturnsCompiledGraph ==
    pc = "returned" =>
        /\ graph # None
        /\ IF graph = None THEN FALSE
           ELSE graph.output_calls >= 1 /\ graph.exits >= 1

\* C4: a call node whose canonical key is absent from the translation table,
\* and whose arguments all convert, makes the compilation raise the
\* unsupported-operator error naming the node index and the operator; its
\* lowering function is not invoked, its name is not bound, and the walk ends
\* there without a returned graph.
C4_UnsupportedOperator ==
    (/\ IsCall(last_node)
     /\ CanonicalKey(last_node.target) \notin mapping
     /\ ArgsConvert(tensors, last_node)) =>
        /\ pc = "raised"
        /\ err.k = "error"
        /\ err.exc = "ValueError"
        /\ err.kind = "UnsupportedOperator"
        /\ err.node_idx = Len(nodes) - 1
        /\ err.function = get_fully_qualified_name(last_node.target)
        /\ (Len(nodes) - 1) \notin lowered
        /\ last_node.name \notin DOMAIN tensors
        /\ nodes[Len(nodes)].name = last_node.name

\* The third node is an aten overload whose packet is absent from the table.
C4_Witness ==
    /\ IsCall(last_node)
    /\ Len(nodes) = 3
    /\ last_node.target.namespace = "aten"
    /\ CanonicalKey(last_node.target) \notin mapping
    /\ last_node.args # <<>>
    /\ ArgsConvert(tensors, last_node)
    /\ pc = "raised"

\* The converted values of the argument sequence of output node n.
ConvertedOutputs(n) ==
    [i \in DOMAIN n.args0 |-> convert_to_max(tensors, n.args0[i])]

\* C5: when every element of the Output node's argument sequence converts to
\* None (the empty sequence included), the compilation raises the empty-output
\* error, this node submits no outputs and closes no scope, and no graph is
\* returned; when the elements convert and one of them is not None, the
\* empty-output error is not raised.
C5_EmptyOutput ==
    (/\ last_node.op = "output"
     /\ \A i \in DOMAIN last_node.args0 : ~IsRaise(ConvertedOutputs(last_node)[i])) =>
        IF \A i \in DOMAIN last_node.args0 : ConvertedOutputs(last_node)[i] = None
        THEN /\ pc = "raised"
             /\ err.k = "error"
             /\ err.exc = "ValueError"
             /\ err.kind = "EmptyOutput"
             /\ graph.output_calls = Cardinality(OutputIndices) - 1
             /\ scope.exits = Cardinality(OutputIndices) - 1
        ELSE ~(err.k = "error" /\ err.kind = "EmptyOutput")

\* An Output node whose two elements are both None has been handled.
C5_Witness ==
    /\ last_node.op = "output"
    /\ Len(last_node.args0) = 2
    /\ \A i \in DOMAIN last_node.args0 : ConvertedOutputs(last_node)[i] = None
    /\ pc = "raised"
    /\ err.kind = "EmptyOutput"

\* C6: whenever create_graph aborts with an error after the construction scope
\* was opened, the scope has been closed by the time the error reaches the
\* caller.
C6_ScopeReleasedOnAbort ==
    (pc = "raised" /\ err.kind # "session.load" /\ scope.enters > 0) =>
        scope.exits = scope.enters

\* The lowering function of the call node taken last was invoked and raised.
LoweringRaised ==
    /\ IsCall(last_node)
    /\ pc = "raised"
    /\ (Len(nodes) - 1) \in lowered

\* The error is the MaxCompilerError of the call node taken last, carrying the
\* node index, the operator name, the converted arguments and the cause.
IsLoweringFailed(e) ==
    /\ e.k = "error"
    /\ e.exc = "MaxCompilerError"
    /\ e.kind = "LoweringFailed"
    /\ e.node_idx = Len(nodes) - 1
    /\ e.function = get_fully_qualified_name(last_node.target)
    /\ e.args = [i \in DOMAIN last_node.args |->
                    convert_to_max(tensors, last_node.args[i])]
    /\ e.kwargs = [i \in DOMAIN last_node.kwargs |->
                      [key |-> last_node.kwargs[i].key,
                       value |-> convert_to_max(tensors, last_node.kwargs[i].value)]]

\* C7 as stated: any failure of the invoked lowering function, whatever its
\* kind, reaches the caller as a MaxCompilerError carrying the node index, the
\* operator name, the converted arguments and the original error, with the
\* node's name unbound.
C7_AnyFailureWrapped ==
    LoweringRaised =>
        /\ IsLoweringFailed(err)
        /\ last_node.name \notin DOMAIN tensors

\* C7 amended: a RuntimeError of the invoked lowering function reaches the
\* caller as a MaxCompilerError carrying the node index, the operator name, the
\* converted arguments and the RuntimeError; a failure of any other kind
\* reaches the caller as it was raised, not wrapped.  Either way the node's
\* name stays unbound and the compilation is aborted.
C7_RuntimeErrorWrapped ==
    LoweringRaised =>
        /\ CanonicalKey(last_node.target) \in mapping
        /\ \/ IsLoweringFailed(err) /\ err.cause = "RuntimeError"
           \/ /\ err.k = "error"
              /\ err.kind = "uncaught"
              /\ err.exc \notin {"RuntimeError", "MaxCompilerError"}
        /\ last_node.name \notin DOMAIN tensors

\* The lowering function of a call node with an argument raised RuntimeError.
C7_Witness ==
    /\ LoweringRaised
    /\ last_node.args # <<>>
    /\ err.exc = "MaxCompilerError"
    /\ err.cause = "RuntimeError"

PlaceholderIndices == {i \in DOMAIN nodes : nodes[i].op = "placeholder"}

TensorPlaceholderIndices ==
    {i \in PlaceholderIndices : nodes[i].example_value.k = "Tensor"}

\* Every call node of the list uses an operator present in the table.
OnlyMappedOperators ==
    \A i \in DOMAIN nodes : IsCall(nodes[i]) => CanonicalKey(nodes[i].target) \in mapping

\* The number of elements of args0 whose converted value is not None.
NonNullCount(args0) == Len(args0) - Cardinality(NullPositions(args0))

\* create_graph has finished on the node list `nodes`, normally or not.
CreateGraphDone ==
    \/ pc = "returned"
    \/ pc = "raised" /\ err.kind # "session.load"

\* The Input nodes precede all other nodes and the only Output node is last.
InputsFirstOutputLast ==
    /\ \A i \in PlaceholderIndices : \A j \in 1..i : j \in PlaceholderIndices
    /\ OutputIndices = {Len(nodes)}

\* C8 as stated, on the node lists whose Input nodes come first and whose only
\* Output node is last: when such a list uses only operators present in the
\* table and create_graph has returned, the graph declares as many inputs as
\* there are Input nodes and has as many outputs as the Output argument
\* sequence has non-null elements.
C8_ArityAllInputs ==
    (pc = "returned" /\ OnlyMappedOperators /\ InputsFirstOutputLast) =>
        /\ graph # None
        /\ Len(graph.inputs) = Cardinality(PlaceholderIndices)
        /\ Len(graph.outputs) = NonNullCount(LastOutputArgs)

\* C8 amended: for a node list that uses only operators present in the table,
\* compilation never fails with the unsupported-operator error; and whenever
\* create_graph returns normally for a list whose Input nodes come first and
\* whose only Output node is last, the graph declares as many inputs as there
\* are Input nodes with tensor metadata (an Input with symbolic-integer
\* metadata declares none) and has as many outputs as the Output argument
\* sequence has non-null elements.
C8_ArityTensorInputs ==
    /\ (CreateGraphDone /\ OnlyMappedOperators) =>
           ~(err.k = "error" /\ err.kind = "UnsupportedOperator")
    /\ (pc = "returned" /\ InputsFirstOutputLast) =>
           /\ graph # None
           /\ Len(graph.inputs) = Cardinality(TensorPlaceholderIndices)
           /\ Len(graph.outputs) = NonNullCount(LastOutputArgs)

\* A symbolic-integer Input and a tensor Input, then an Output with a None and
\* a tensor: the graph has one input and one output.
C8_Witness ==
    /\ pc = "returned"
    /\ InputsFirstOutputLast
    /\ OnlyMappedOperators
    /\ Cardinality(PlaceholderIndices) = 2
    /\ Cardinality(TensorPlaceholderIndices) = 1
    /\ Len(LastOutputArgs) = 2
    /\ Len(graph.inputs) = 1
    /\ Len(graph.outputs) = 1

\* The occurrences <<i, dim_idx>> of symbolic name s in the shapes of the
\* tensor Input nodes among nodes[1..upto], up to a dimension of unsupported
\* type.
Occurrences(s, upto) ==
    UNION { { <<i, d>> : d \in { e \in 0..(Len(nodes[i].example_value.shape) - 1) :
                                  /\ nodes[i].example_value.shape[e + 1] = s
                                  /\ \A f \in 1..e :
                                        nodes[i].example_value.shape[f]
                                            \in SymInts \cup IntDims } } :
            i \in {j \in TensorPlaceholderIndices : j <= upto} }

Precedes(o, p) == o[1] < p[1] \/ (o[1] = p[1] /\ o[2] <= p[2])

FirstOccurrence(s, upto) ==
    LET occ == Occurrences(s, upto)
    IN  CHOOSE o \in occ : \A p \in occ : Precedes(o, p)

LastOccurrence(s, upto) ==
    LET occ == Occurrences(s, upto)
    IN  CHOOSE o \in occ : \A p \in occ : Precedes(p, o)

\* The (producing tensor, dimension index) pair of occurrence o.
PairOf(o) == [tensor_name |-> nodes[o[1]].name, dim_idx |-> o[2]]

\* The number of Input nodes that precede the first node of another kind.
LeadingInputs ==
    Cardinality({i \in PlaceholderIndices : \A j \in 1..i : j \in PlaceholderIndices})

\* The graph input declared for the tensor Input node nodes[i].
GraphInputOf(i) ==
    GraphInput(Cardinality({j \in TensorPlaceholderIndices : j < i}))

\* C9 as stated: the pair registered for a symbolic name is that of the first
\* occurrence of the name among the Input nodes taken so far.
C9_FirstOccurrenceKept ==
    \A s \in DOMAIN shape_names_to_input_dim :
        shape_names_to_input_dim[s] = PairOf(FirstOccurrence(s, Len(nodes)))

\* C9 amended: each symbolic name that occurs in the shape of an Input node is
\* registered with exactly one (producing tensor, dimension index) pair, that of
\* its last occurrence so far: an Input node or a dimension that carries the
\* name again replaces the pair.  Once the scope is open, a name that occurs
\* in the Input nodes preceding the first node of another kind is bound to the
\* shape, at the dimension of its last occurrence among them, of the graph
\* input of that tensor.
C9_LastOccurrenceKept ==
    /\ DOMAIN shape_names_to_input_dim =
           {s \in SymInts : Occurrences(s, Len(nodes)) # {}}
    /\ \A s \in DOMAIN shape_names_to_input_dim :
           shape_names_to_input_dim[s] = PairOf(LastOccurrence(s, Len(nodes)))
    /\ graph # None =>
           \A s \in SymInts :
               Occurrences(s, LeadingInputs) # {} =>
                   LET last == LastOccurrence(s, LeadingInputs)
                   IN  /\ s \in DOMAIN tensors
                       /\ tensors[s] = ShapeOf(GraphInputOf(last[1]), last[2])

\* Two Input nodes carry s0, the second one twice; the scope is open and s0 is
\* bound to the shape of the second graph input at its last dimension.
C9_Witness ==
    /\ Len(nodes) = 3
    /\ graph # None
    /\ Occurrences("s0", 2) = {<<1, 0>>, <<2, 1>>, <<2, 2>>}
    /\ shape_names_to_input_dim["s0"] = [tensor_name |-> "n1", dim_idx |-> 2]
    /\ tensors["s0"] = ShapeOf(GraphInput(1), 2)

\* C10: a get_attr node whose target exists is handled without error and its
\* name is bound to the fetched attribute value.
C10_GetAttrBinds ==
    (last_node.op = "get_attr" /\ last_node.target \in ModuleAttributes) =>
        /\ pc # "raised"
        /\ last_node.name \in DOMAIN tensors
        /\ tensors[last_node.name] = fetch_attr(last_node.target)

\* The closed set of node kinds the walk has a handler for.
ClosedKinds == {"placeholder", "call_function", "call_method", "get_attr", "output"}

\* C11: a node whose operation kind is outside the closed set makes the
\* compilation raise the unsupported-node-kind error: the walk ends at this
\* node, nothing is bound to its name, and every binding there is belongs to
\* an earlier node or to a symbolic dimension.  The error is raised for no
\* node whose kind is inside the set.
C11_UnsupportedNodeKind ==
    /\ (last_node # NoNode /\ last_node.op \notin ClosedKinds) =>
           /\ pc = "raised"
           /\ err.k = "error"
           /\ err.exc = "ValueError"
           /\ err.kind = "UnsupportedNodeKind"
           /\ nodes[Len(nodes)].name = last_node.name
           /\ last_node.name \notin DOMAIN tensors
           /\ DOMAIN tensors \subseteq
                  {nodes[i].name : i \in 1..(Len(nodes) - 1)} \cup SymInts
    /\ (err.k = "error" /\ err.kind = "UnsupportedNodeKind") =>
           /\ last_node # NoNode
           /\ last_node.op \notin ClosedKinds

\* A call_module node came third, after an Input node and a call node.
C11_Witness ==
    /\ Len(nodes) = 3
    /\ last_node.op = "call_module"
    /\ nodes[1].op = "placeholder"
    /\ IsCall(nodes[2])
    /\ pc = "raised"
    /\ err.kind = "UnsupportedNodeKind"

\* The call_function nodes of gm whose operator has a decomposition.
Matches(gm) ==
    {i \in DOMAIN gm.nodes :
        /\ gm.nodes[i].op = "call_function"
        /\ gm.nodes[i].target \in {"aten.mish.default", "aten.softplus.default"}}

LeadingInputIndices == 1..LeadingInputs
LeadingTensorInputs == {i \in TensorPlaceholderIndices : i <= LeadingInputs}

\* The scope is open exactly when a node that is not an Input has been taken.
OpenedAtFirstNonInput == (graph = None) <=> (PlaceholderIndices = DOMAIN nodes)

\* C13 as stated: the scope is opened when the first node that is not an Input
\* is reached and not earlier; the graph then declares one input per Input
\* node seen until then, in order, and the name of the i-th of them is bound
\* to graph input i.
C13_AllInputsDeclared ==
    /\ OpenedAtFirstNonInput
    /\ graph # None =>
           /\ Len(graph.inputs) = LeadingInputs
           /\ \A i \in LeadingInputIndices :
                  /\ nodes[i].name \in DOMAIN tensors
                  /\ tensors[nodes[i].name] = GraphInput(i - 1)

\* C13 amended: the scope is opened when the first node that is not an Input
\* is reached and not earlier.  The graph then declares one input per Input
\* node with tensor metadata seen until then, in order and with its shape;
\* the name of each of them is bound to the graph input of its rank among
\* them, so distinct names are bound to distinct inputs within the declared
\* range; and every symbolic name registered by them is bound to the shape of
\* the graph input of its recorded tensor at its recorded dimension.  An Input
\* with symbolic-integer metadata declares no graph input.
C13_TensorInputsDeclared ==
    /\ OpenedAtFirstNonInput
    /\ graph # None =>
           /\ Len(graph.inputs) = Cardinality(LeadingTensorInputs)
           /\ \A i \in LeadingTensorInputs :
                  /\ graph.inputs[GraphInputOf(i).idx + 1] =
                         TensorType(nodes[i].example_value.shape)
                  /\ nodes[i].name \in DOMAIN tensors
                  /\ tensors[nodes[i].name] = GraphInputOf(i)
                  /\ tensors[nodes[i].name].idx \in 0..(Len(graph.inputs) - 1)
                  /\ \A j \in LeadingTensorInputs :
                        j # i => tensors[nodes[j].name] # tensors[nodes[i].name]
           /\ \A i \in LeadingInputIndices \ LeadingTensorInputs :
                  nodes[i].name \in DOMAIN tensors =>
                      nodes[i].name \in SymInts
           /\ \A s \in SymInts :
                  Occurrences(s, LeadingInputs) # {} =>
                      LET last == LastOccurrence(s, LeadingInputs)
                      IN  /\ s \in DOMAIN tensors
                          /\ tensors[s] =
                                 ShapeOf(tensors[nodes[last[1]].name], last[2])

\* A symbolic-integer Input, a tensor Input whose shape carries the symbol,
\* then a node of another kind: one graph input, bound to the tensor's name.
C13_Witness ==
    /\ Len(nodes) = 3
    /\ nodes[1].op = "placeholder" /\ nodes[1].example_value.k = "SymInt"
    /\ nodes[2].op = "placeholder" /\ nodes[2].example_value.k = "Tensor"
    /\ nodes[3].op # "placeholder"
    /\ graph # None
    /\ Len(graph.inputs) = 1
    /\ tensors["n1"] = GraphInput(0)
    /\ "s0" \in DOMAIN tensors

\* Every node reference within argument x has a binding in book.
RECURSIVE AllBound(_, _)
AllBound(book, x) ==
    CASE x.k = "Node" -> x.name \in DOMAIN book
      [] x.k = "slice" ->
            AllBound(book, x.start) /\ AllBound(book, x.stop) /\ AllBound(book, x.step)
      [] x.k \in {"immutable_list", "tuple"} ->
            \A i \in DOMAIN x.items : AllBound(book, x.items[i])
      [] OTHER -> TRUE

\* y has the structure of argument x: a sequence for a sequence and a tuple
\* for a tuple, of the same length and in the same order, a slice for a slice,
\* field by field, the bound value for a node reference, the literal itself
\* for a literal.
RECURSIVE Preserves(_, _, _)
Preserves(book, x, y) ==
    CASE x.k = "Node" -> y = book[x.name]
      [] x.k = "slice" ->
            /\ y.k = "slice"
            /\ Preserves(book, x.start, y.start)
            /\ Preserves(book, x.stop, y.stop)
            /\ Preserves(book, x.step, y.step)
      [] x.k = "immutable_list" ->
            /\ y.k = "list"
            /\ Len(y.items) = Len(x.items)
            /\ \A i \in DOMAIN x.items : Preserves(book, x.items[i], y.items[i])
      [] x.k = "tuple" ->
            /\ y.k = "tuple"
            /\ Len(y.items) = Len(x.items)
            /\ \A i \in DOMAIN x.items : Preserves(book, x.items[i], y.items[i])
      [] OTHER -> y = x

\* C14: convert_to_max preserves structure.  For an argument built from node
\* references, scalars, None, Ellipsis, slices, sequences and tuples whose
\* references are all bound, the conversion raises nothing and its result has
\* the same nesting, sequence lengths and element order, tuple arity and slice
\* fields, with every node reference replaced by its bound value and every
\* literal unchanged.
C14_StructurePreserved ==
    (/\ pure.k = "convert_to_max"
     /\ pure.stage = 1
     /\ AllBound(pure.book, pure.something)) =>
        /\ ~IsRaise(pure.result)
        /\ Preserves(pure.book, pure.something, pure.result)

\* A list that holds a reference and a slice with a bound reference as a
\* field has been converted.
C14_Witness ==
    /\ pure.k = "convert_to_max"
    /\ pure.stage = 1
    /\ pure.something.k = "immutable_list"
    /\ Len(pure.something.items) = 2
    /\ pure.something.items[1] = Ref("b")
    /\ pure.something.items[2].k = "slice"
    /\ pure.something.items[2].stop = Ref("a")
    /\ pure.result.k = "list"
    /\ pure.result.items[2].stop = GraphInput(0)

\* The node references within argument x.
RECURSIVE RefsOf(_)
RefsOf(x) ==
    CASE x.k = "Node" -> {x.name}
      [] x.k = "slice" -> RefsOf(x.start) \cup RefsOf(x.stop) \cup RefsOf(x.step)
      [] x.k \in {"immutable_list", "tuple"} ->
            UNION {RefsOf(x.items[i]) : i \in DOMAIN x.items}
      [] OTHER -> {}

\* The names the Call or Output node n refers to.
ReferencedBy(n) ==
    IF n.op = "output"
    THEN UNION {RefsOf(n.args0[i]) : i \in DOMAIN n.args0}
    ELSE UNION {RefsOf(n.args[i]) : i \in DOMAIN n.args}
             \cup UNION {RefsOf(n.kwargs[i].value) : i \in DOMAIN n.kwargs}

\* The node list is topologically ordered with all Input nodes first: every
\* Input precedes every node of another kind, and the node taken last refers
\* only to Input and Call nodes that precede it.
OrderedInputsFirst ==
    /\ \A i \in PlaceholderIndices : i <= LeadingInputs
    /\ \A name \in ReferencedBy(last_node) :
           \E i \in 1..(Len(nodes) - 1) :
               /\ nodes[i].name = name
               /\ nodes[i].op \in {"placeholder", "call_function", "call_method"}

UnboundReferenceRaised ==
    pc = "raised" /\ err.k = "error" /\ err.kind = "UnboundReference"

\* C15: a Call or Output node that refers to a name without a binding makes
\* the compilation raise the unbound-reference error, and binds nothing; and
\* for a node list that is topologically ordered with all Input nodes first,
\* no Call or Output node raises the unbound-reference error.
C15_NoUnboundReference ==
    (IsCall(last_node) \/ last_node.op = "output") =>
        /\ (\E name \in ReferencedBy(last_node) : name \notin DOMAIN tensors) =>
               /\ UnboundReferenceRaised
               /\ err.exc = "KeyError"
               /\ last_node.name \notin DOMAIN tensors
        /\ OrderedInputsFirst => ~UnboundReferenceRaised

\* C16: values are immutable once bound.  No step of the walk removes a name
\* from the tensor book or changes the value a name is bound to: the book only
\* grows.
C16_BindingsOnlyGrow ==
    [][\A n \in DOMAIN tensors :
          n \in DOMAIN tensors' /\ tensors'[n] = tensors[n]]_vars

\* The book holds a graph input, a symbolic dimension and the result of a
\* call node, and a third node was handled after them.
C16_Witness ==
    /\ Len(nodes) = 3
    /\ "n0" \in DOMAIN tensors /\ tensors["n0"] = GraphInput(0)
    /\ "s0" \in DOMAIN tensors
    /\ "n1" \in DOMAIN tensors /\ tensors["n1"].k = "OpResult"
    /\ last_node.op = "output"
    /\ pc = "walk"

\* C17: the Output node is the last node processed.  Once an Output node has
\* been processed no further node is dispatched, and a run of create_graph
\* that returns normally has processed exactly one Output node.
C17_OutputIsLast ==
    /\ \A i \in OutputIndices : i = Len(nodes)
    /\ pc = "returned" => Cardinality(OutputIndices) = 1

\* The positions of the tensors in args, and the position of the j-th of them.
TensorPositions(args) == {i \in DOMAIN args : args[i].k = "torch.Tensor"}

NthTensorPosition(args, j) ==
    CHOOSE i \in TensorPositions(args) :
        Cardinality({p \in TensorPositions(args) : p < i}) = j - 1

\* kept holds one tensor per tensor of args, in the order of args, with the
\* data of that tensor, and nothing else.
IsTensorSubsequence(args, kept) ==
    /\ Len(kept) = Cardinality(TensorPositions(args))
    /\ \A j \in DOMAIN kept :
           /\ kept[j].k = "torch.Tensor"
           /\ kept[j].data = args[NthTensorPosition(args, j)].data

\* C18: keep_only_tensors returns the tensors of its input, all of them and
\* nothing else, in their order, whatever the detach flag: without the flag
\* the elements themselves, with it the same tensors detached.  What
\* __call__ hands to the engine is that subsequence of its arguments.
C18_TensorsOnlyInOrder ==
    (pc = "ready" /\ call # Unset) =>
        /\ IsTensorSubsequence(call.args, call.engine_inputs)
        /\ \A detach \in BOOLEAN :
               IsTensorSubsequence(call.args, keep_only_tensors(call.args, detach))
        /\ \A j \in DOMAIN keep_only_tensors(call.args, FALSE) :
               keep_only_tensors(call.args, FALSE)[j] =
                   call.args[NthTensorPosition(call.args, j)]
        /\ \A j \in DOMAIN call.engine_inputs :
               ~call.engine_inputs[j].requires_grad

\* __call__ was given an integer and two tensors and handed the two tensors,
\* in their order, to the engine.
C18_Witness ==
    /\ pc = "ready"
    /\ call # Unset
    /\ Len(call.args) = 3
    /\ call.args[1].k = "int"
    /\ Len(call.engine_inputs) = 2
    /\ call.engine_inputs[1].data = "y"
    /\ call.engine_inputs[2].data = "x"

====
